---- MODULE Spec2Model ----
(***************************************************************************)
(* Model of azurelinuxagent/daemon/datadisk/default.py: DataDiskHandler.   *)
(*                                                                         *)
(* The handler runs on one worker thread (start_activate_data_disk), so    *)
(* the program is one sequential process; every shell command, sleep and   *)
(* file-system call is one step.  The operating system is the environment: *)
(* it chooses the exit code and output of every command, it may create the *)
(* partition device node at any moment (udev), and another process may     *)
(* mount the partition at any moment.                                      *)
(*                                                                         *)
(* issued is the record of what the current mount_data_disk call has done: *)
(* one entry per shell command, os call or sleep, in program order, with   *)
(* the exit code and the output markers the code branches on.              *)
(***************************************************************************)
EXTENDS Integers, Sequences, FiniteSets, TLC

None == "None"

\* ---------------------------------------------------------------- bounds
MaxLuns == 2        \* entries in the listing of /dev/disk/azure/scsi1
MaxRuns == 2        \* times the worker thread's run() is started

\* ------------------------------------------------------ program constants
Attempts == 5               \* attempts = 5
AlreadyMountedExit == 32    \* if ret == 32 and ...

\* The configurations: conf.get_datadisk_filesystem() and
\* conf.get_datadisk_mountoptions().
FsTypes == {"ext4", "xfs"}
Confs == { [fs |-> "ext4", mountoptions |-> None],
           [fs |-> "xfs", mountoptions |-> "noatime"] }
MountDirectory == "/mnt"                    \* conf.get_datadisk_mountdirectory()
OtherMountPoint == "/data"                  \* a mount point chosen by someone else

Devices == {"sdc", "sdd"}

\* The entries of DATADISK_SCSI_PATH and what os.readlink gives for each,
\* as the path's segments.
LunNames == {"lun0", "lun1", "lun0-part1", "lun1-part1"}
contains_part(lun) == lun \in {"lun0-part1", "lun1-part1"}
readlink(lun) ==
    CASE lun = "lun0"       -> <<"..", "..", "..", "sdc">>
      [] lun = "lun1"       -> <<"..", "..", "..", "sdd">>
      [] lun = "lun0-part1" -> <<"..", "..", "..", "sdc1">>
      [] lun = "lun1-part1" -> <<"..", "..", "..", "sdd1">>

\* os.listdir: the entries, each once, in an order the OS chooses.
Listings ==
    { l \in UNION { [1..n -> LunNames] : n \in 0..MaxLuns } :
        \A i, j \in DOMAIN l : i # j => l[i] # l[j] }

\* get_datadisk_devices: the last path segment of every entry without "part".
RECURSIVE get_datadisk_devices(_)
get_datadisk_devices(luns) ==
    IF luns = <<>> THEN <<>>
    ELSE LET lun == Head(luns)
             device_path == readlink(lun)
         IN  (IF ~contains_part(lun)
                THEN <<device_path[Len(device_path)]>>
                ELSE <<>>) \o get_datadisk_devices(Tail(luns))

\* ------------------------------------------------------- command strings
device_path_of(device) == "/dev/" \o device
partition_of(device) == device_path_of(device) \o "1"
mount_point_of(device) == MountDirectory \o "/" \o device

force_option(f) == IF f = "xfs" THEN "f" ELSE "F"
mkfs_string(f, partition) ==
    "mkfs." \o f \o " -" \o force_option(f) \o " " \o partition
mkpart_string(dev, f) ==
    "parted " \o dev \o " --script mklabel gpt mkpart primary " \o f \o " 0% 100%"
print_string(dev) == "parted " \o dev \o " print"
sfdisk_string(dev) == "sfdisk -R " \o dev
blockdev_string(dev) == "blockdev --rereadpt " \o dev

get_mount_string(f, mount_options, partition, mp) ==
    IF mount_options # None
      THEN "mount -t " \o f \o " -o " \o mount_options \o " " \o partition \o " " \o mp
      ELSE "mount -t " \o f \o " " \o partition \o " " \o mp

\* What is not a shell command but is recorded in issued all the same.
list_string == "mount"
mkdir_string(mp) == "mkdir " \o mp
exists_string(partition) == "exists " \o partition
sleep_string == "sleep 5"

Entry(c, rc, out) == [cmd |-> c, rc |-> rc, out |-> out]

\* ----------------------------------------------------------------- state
VARIABLES
    conf,          \* conf.*, with self.fs = conf.fs read by __init__
    mount_table,   \* OS: device -> mount point of its first line in `mount`, or None
    node,          \* OS: device -> whether its partition node /dev/<d>1 exists
    runs,          \* how many times run() has been started
    devices,       \* run: the enumerated devices
    idx,           \* run: position of the for loop
    pc,            \* where the thread is
    mount_point,   \* mount_data_disk: mount_point
    mount_string,  \* mount_data_disk: mount_string
    ret,           \* mount_data_disk: ret / (ret, output), <<exit code, output markers>>
    attempts,      \* mount_data_disk: attempts
    issued,        \* what the current call has done so far
    retval,        \* what mount_data_disk returned, or None
    error,         \* the DataDiskError mount_data_disk raised, or None
    activated,     \* devices activate_data_disk was called for in this run, in order
    outcomes,      \* per activated device: "ok" or "error", once its call has ended
    events,        \* telemetry events of this run
    last_ret,      \* device -> what the latest call for it returned, while nobody
                   \* else has changed the mount table since; None otherwise
    file,          \* OS: the regular file at the swap file's path, or NoFile
    filename,      \* create_swap_space: swapfile; mkfile: filename
    swaplist,      \* create_swap_space: swaplist, the paths `swapon -s` printed
    size,          \* create_swap_space: size, in bytes
    nbytes,        \* mkfile: nbytes
    fd,            \* mkfile: fd
    caller         \* who called mkfile: "create_swap_space", "outside", or None

vars == <<conf, mount_table, node, runs, devices, idx, pc, mount_point, mount_string,
          ret, attempts, issued, retval, error, activated, outcomes, events, last_ret,
          file, filename, swaplist, size, nbytes, fd, caller>>

os_vars == <<mount_table, node>>
run_vars == <<runs, devices, idx, activated, outcomes, events, last_ret>>
call_vars == <<mount_point, mount_string, ret, attempts, retval, error>>
swap_vars == <<file, filename, swaplist, size, nbytes, fd, caller>>

device == IF idx \in DOMAIN devices THEN devices[idx] ELSE None

NoRet == <<0, {}>>

\* The regular file at a path (st_size, and st_mode as the classes whose
\* permission bits are set), and no file there.
File(s, m) == [exists |-> TRUE, size |-> s, mode |-> m]
NoFile == [exists |-> FALSE, size |-> 0, mode |-> {}]

Init ==
    /\ conf \in Confs
    /\ mount_table = [d \in Devices |-> None]
    /\ node = [d \in Devices |-> FALSE]
    /\ runs = 0
    /\ devices = <<>>
    /\ idx = 1
    /\ pc = "idle"
    /\ mount_point = None
    /\ mount_string = None
    /\ ret = NoRet
    /\ attempts = 0
    /\ issued = <<>>
    /\ retval = None
    /\ error = None
    /\ activated = <<>>
    /\ outcomes = <<>>
    /\ events = <<>>
    /\ last_ret = [d \in Devices |-> None]
    /\ file = NoFile
    /\ filename = None
    /\ swaplist = {}
    /\ size = 0
    /\ nbytes = 0
    /\ fd = None
    /\ caller = None


\* ------------------------------------------------------------ environment
\* Exit code and output of a mount command: success, the tolerated
\* "already mounted" refusal, exit 32 for another reason, another failure.
MountResults ==
    { <<0, {}>>, <<1, {}>>,
      <<AlreadyMountedExit, {"is already mounted"}>>, <<AlreadyMountedExit, {}>> }
ExitCodes == {0, 1}
ProbeOutputs == SUBSET {"unrecognised", "gpt"}

\* The thread reads the mount table in the listing and changes it in a mount
\* command, and reads the partition node in a poll.  What the OS does in
\* between commutes with the thread's other steps, so it is taken right
\* before such a step: another mount before the listing or in the window
\* before the first mount attempt, the node before a poll.
mount_turn(d) == d = device /\ pc \in {"mount_data_disk", "mount"}
node_turn(d) == d = device /\ pc \in {"wait", "check"}

\* A mount command that exits 0 has mounted the partition; the listing
\* keeps an earlier line of the device before the new one.
mounted(table, d, mp, rc) ==
    IF rc = 0 /\ table[d] = None THEN [table EXCEPT ![d] = mp] ELSE table

\* Another process mounts the partition of d (the race of mount_data_disk's
\* exit-32 tolerance).
external_mount(d) ==
    /\ mount_turn(d)
    /\ mount_table[d] = None
    /\ \E mp \in {mount_point_of(d), OtherMountPoint} :
           mount_table' = [mount_table EXCEPT ![d] = mp]
    /\ last_ret' = [last_ret EXCEPT ![d] = None]
    /\ UNCHANGED <<conf, node, runs, devices, idx, pc, activated, outcomes, events>>
    /\ UNCHANGED swap_vars
    /\ UNCHANGED <<call_vars, issued>>

\* The kernel creates the partition node of d.
udev_add(d) ==
    /\ node_turn(d)
    /\ ~node[d]
    /\ node' = [node EXCEPT ![d] = TRUE]
    /\ UNCHANGED <<conf, mount_table, run_vars, pc, call_vars, issued>>
    /\ UNCHANGED swap_vars

\* osutil.get_mount_point(mount_list, device): the mount point of the first
\* line of the listing that names the device, None when there is none.
get_mount_point(mount_list, d) == mount_list[d]

\* ------------------------------------------------------------------- run
\* run: if conf.get_datadisk_format(): devices = self.get_datadisk_devices()
run ==
    /\ runs' = runs + 1
    /\ \E format \in BOOLEAN, luns \in Listings :
           IF format
             THEN devices' = get_datadisk_devices(luns) /\ pc' = "loop"
             ELSE devices' = <<>> /\ pc' = "idle"
    /\ idx' = 1
    /\ activated' = <<>>
    /\ outcomes' = <<>>
    /\ events' = <<>>
    /\ UNCHANGED <<conf, os_vars, last_ret, call_vars, issued>>
    /\ UNCHANGED swap_vars

\* start_activate_data_disk: the daemon starts the worker thread.
start_activate_data_disk ==
    /\ pc = "idle"
    /\ runs = 0
    /\ run

\* The agent is started again on the same machine, and the thread with it.
start_again ==
    /\ pc = "idle"
    /\ runs \in 1..(MaxRuns - 1)
    /\ run

\* for device in devices: self.activate_data_disk(device), up to the call
\* of mount_data_disk.
activate_data_disk ==
    /\ pc = "loop"
    /\ idx <= Len(devices)
    /\ activated' = Append(activated, devices[idx])
    /\ mount_point' = mount_point_of(devices[idx])
    /\ pc' = "mount_data_disk"
    /\ UNCHANGED <<conf, os_vars, runs, devices, idx, outcomes, events, last_ret>>
    /\ UNCHANGED swap_vars
    /\ UNCHANGED <<mount_string, ret, attempts, retval, error, issued>>

\* The for loop of run is exhausted.
run_end ==
    /\ pc = "loop"
    /\ idx > Len(devices)
    /\ pc' = "idle"
    /\ UNCHANGED <<conf, os_vars, run_vars, call_vars, issued>>
    /\ UNCHANGED swap_vars

\* A variant of the except clause that logs and reports nothing.
add_event_dropped(evs, e) == evs

\* add_event(name=AGENT_NAME, is_success=False, message=ustr(e), op=ActivateDataDisk)
add_event(evs, e) ==
    Append(evs, [name |-> "AGENT_NAME", is_success |-> FALSE, message |-> e.msg,
                 op |-> "ActivateDataDisk"])

\* activate_data_disk after mount_data_disk: the except clause, return None,
\* and the next iteration of run's loop.
end_activate ==
    /\ pc \in {"returned", "raised"}
    /\ events' = IF pc = "raised" THEN add_event(events, error) ELSE events
    /\ outcomes' = Append(outcomes, IF pc = "raised" THEN "error" ELSE "ok")
    /\ last_ret' = [last_ret EXCEPT ![device] = IF pc = "raised" THEN None ELSE retval]
    /\ idx' = idx + 1
    /\ pc' = "loop"
    /\ mount_point' = None
    /\ mount_string' = None
    /\ ret' = NoRet
    /\ attempts' = 0
    /\ issued' = <<>>
    /\ retval' = None
    /\ error' = None
    /\ UNCHANGED <<conf, os_vars, runs, devices, activated>>
    /\ UNCHANGED swap_vars

\* ------------------------------------------------------- mount_data_disk
DataDiskError(msg, r) == [msg |-> msg, rc |-> r[1], out |-> r[2]]

mkdir_message(mp) == "Failed to create mount point directory [" \o mp \o "]"
probe_message(dev) == "Could not determine partition info for " \o dev
partition_message(partition) == "Partition was not created [" \o partition \o "]"
mount_message(partition) == "Could not mount " \o partition \o " after syncing partition table"

Return(v) == pc' = "returned" /\ retval' = v /\ error' = None
Raise(e) == pc' = "raised" /\ retval' = None /\ error' = e
Goto(l) == pc' = l /\ UNCHANGED <<retval, error>>
Issue(c, rc, out) == issued' = Append(issued, Entry(c, rc, out))

\* shellutil.run(cmd) where the caller drops the exit code: whatever the
\* command exits with, the entry of issued records 0.
run_dropped(c) == \E rc \in ExitCodes : Issue(c, 0, {})

\* A variant that never takes the short-circuit.
is_mounted_never(existing) == FALSE

\* if existing: return existing
is_mounted(existing) == existing # None

\* Lines 92-104: the device check, the mount listing and the short-circuit.
query_mounts ==
    /\ pc = "mount_data_disk"
    /\ IF device = None
         THEN /\ Raise(DataDiskError("unable to detect disk topology", NoRet))
              /\ UNCHANGED issued
         ELSE LET existing == get_mount_point(mount_table, device)
              IN  /\ Issue(list_string, 0, {existing} \ {None})
                  /\ IF is_mounted(existing) THEN Return(existing) ELSE Goto("mkdir")
    /\ UNCHANGED <<conf, os_vars, run_vars, mount_point, mount_string, ret, attempts>>
    /\ UNCHANGED swap_vars

\* Lines 106-112: fileutil.mkdir(mount_point, mode=0o755); OSError is fatal.
mkdir ==
    /\ pc = "mkdir"
    /\ \E oserror \in BOOLEAN :
           /\ Issue(mkdir_string(mount_point), IF oserror THEN 1 ELSE 0, {})
           /\ IF oserror
                THEN Raise(DataDiskError(mkdir_message(mount_point), NoRet))
                ELSE Goto("probe")
    /\ UNCHANGED <<conf, os_vars, run_vars, mount_point, mount_string, ret, attempts>>
    /\ UNCHANGED swap_vars

\* A variant that does not look at the exit code of the probe.
probe_failed_ignored(r) == FALSE

\* if ret[0]: raise DataDiskError
probe_failed(r) == r[1] # 0

\* Lines 114-118: parted <device> print.
parted_print ==
    /\ pc = "probe"
    /\ \E rc \in ExitCodes, out \in ProbeOutputs :
           /\ ret' = <<rc, out>>
           /\ Issue(print_string(device_path_of(device)), rc, out)
           /\ IF probe_failed(<<rc, out>>)
                THEN Raise(DataDiskError(probe_message(device_path_of(device)),
                                         <<rc, out>>))
                ELSE Goto("classify")
    /\ UNCHANGED <<conf, os_vars, run_vars, mount_point, mount_string, attempts>>
    /\ UNCHANGED swap_vars

\* A variant that tests for "gpt" before "unrecognised".
classify_gpt_first(out) ==
    IF "gpt" \in out THEN "GPT"
    ELSE IF "unrecognised" \in out THEN "Unrecognized"
    ELSE "Other"

\* Lines 126-142: the classification of the probe output.
classify(out) ==
    IF "unrecognised" \in out THEN "Unrecognized"
    ELSE IF "gpt" \in out THEN "GPT"
    ELSE "Other"

\* Lines 120-131: mkfs_string is computed; an empty disk gets a GPT label
\* with one primary partition (the exit code of parted is not looked at).
create_partition ==
    /\ pc = "classify"
    /\ IF classify(ret[2]) = "Unrecognized"
         THEN /\ run_dropped(mkpart_string(device_path_of(device), conf.fs))
              /\ Goto("format")
         ELSE /\ UNCHANGED issued
              /\ Goto("mount_string")
    /\ UNCHANGED <<conf, os_vars, run_vars, mount_point, mount_string, ret, attempts>>
    /\ UNCHANGED swap_vars

\* Lines 133-134: shellutil.run(mkfs_string) for the new partition.
format_partition ==
    /\ pc = "format"
    /\ run_dropped(mkfs_string(conf.fs, partition_of(device)))
    /\ Goto("mount_string")
    /\ UNCHANGED <<conf, os_vars, run_vars, mount_point, mount_string, ret, attempts>>
    /\ UNCHANGED swap_vars

\* Lines 144-148: mount_string and attempts = 5.
build_mount_string ==
    /\ pc = "mount_string"
    /\ mount_string' = get_mount_string(conf.fs, conf.mountoptions,
                                        partition_of(device), mount_point)
    /\ attempts' = Attempts
    /\ Goto("wait")
    /\ UNCHANGED <<conf, os_vars, run_vars, mount_point, ret, issued>>
    /\ UNCHANGED swap_vars

\* A variant whose loop does not test attempts.
wait_continues_unbounded(exists, n) == ~exists

\* while not os.path.exists(partition) and attempts > 0
wait_continues(exists, n) == ~exists /\ n > 0

\* Lines 149-154: one evaluation of the loop condition and, when it holds,
\* the loop body (sleep(5); attempts -= 1).
wait_partition ==
    /\ pc = "wait"
    /\ LET exists == node[device]
           poll == Entry(exists_string(partition_of(device)),
                         IF exists THEN 0 ELSE 1, {})
       IN  IF wait_continues(exists, attempts)
             THEN /\ issued' = issued \o <<poll, Entry(sleep_string, 0, {})>>
                  /\ attempts' = attempts - 1
                  /\ Goto("wait")
             ELSE /\ issued' = Append(issued, poll)
                  /\ attempts' = attempts
                  /\ Goto("check")
    /\ UNCHANGED <<conf, os_vars, run_vars, mount_point, mount_string, ret>>
    /\ UNCHANGED swap_vars

\* Lines 156-158: if not os.path.exists(partition): raise DataDiskError.
check_partition ==
    /\ pc = "check"
    /\ LET exists == node[device]
       IN  /\ Issue(exists_string(partition_of(device)), IF exists THEN 0 ELSE 1, {})
           /\ IF ~exists
                THEN Raise(DataDiskError(partition_message(partition_of(device)),
                                         NoRet))
                ELSE Goto("mount")
    /\ UNCHANGED <<conf, os_vars, run_vars, mount_point, mount_string, ret, attempts>>
    /\ UNCHANGED swap_vars

\* One run of mount_string: the OS chooses the result r.
run_mount(r) ==
    /\ ret' = r
    /\ Issue(mount_string, r[1], r[2])
    /\ mount_table' = mounted(mount_table, device, mount_point, r[1])

\* A variant that tolerates every exit 32.
already_mounted_any_32(r) == r[1] = AlreadyMountedExit

\* if ret == 32 and output.find("is already mounted") != -1
already_mounted(r) == r[1] = AlreadyMountedExit /\ "is already mounted" \in r[2]

\* elif ret != 0
mount_failed(r) == r[1] # 0

\* if ret: (after the re-read)
retry_failed(r) == r[1] # 0

\* A variant that applies the exit-32 tolerance to the final attempt too.
final_failed_tolerant(r) == r[1] # 0 /\ ~already_mounted(r)

\* if ret: (after the format)
final_failed(r) == r[1] # 0

\* Lines 160-165 and 191-195: the first mount attempt.
mount_first ==
    /\ pc = "mount"
    /\ \E r \in MountResults :
           /\ run_mount(r)
           /\ IF already_mounted(r) THEN Return(mount_point)
              ELSE IF mount_failed(r) THEN Goto("reread")
              ELSE Return(mount_point)
    /\ UNCHANGED <<conf, node, run_vars, mount_point, mount_string, attempts>>
    /\ UNCHANGED swap_vars

\* A variant that always falls back to blockdev.
needs_blockdev_always(rc) == TRUE

\* if shellutil.run("sfdisk -R ..."): blockdev --rereadpt
needs_blockdev(rc) == rc # 0

\* Line 77: reread_partition_table, sfdisk -R.
reread_sfdisk ==
    /\ pc = "reread"
    /\ \E rc \in ExitCodes :
           /\ Issue(sfdisk_string(device_path_of(device)), rc, {})
           /\ IF needs_blockdev(rc) THEN Goto("blockdev") ELSE Goto("retry")
    /\ UNCHANGED <<conf, os_vars, run_vars, mount_point, mount_string, ret, attempts>>
    /\ UNCHANGED swap_vars

\* Lines 78-79: reread_partition_table, blockdev --rereadpt.
reread_blockdev ==
    /\ pc = "blockdev"
    /\ run_dropped(blockdev_string(device_path_of(device)))
    /\ Goto("retry")
    /\ UNCHANGED <<conf, os_vars, run_vars, mount_point, mount_string, ret, attempts>>
    /\ UNCHANGED swap_vars

\* Lines 176-177 and 191-195: the mount attempt after the re-read.
mount_retry ==
    /\ pc = "retry"
    /\ \E r \in MountResults :
           /\ run_mount(r)
           /\ IF retry_failed(r) THEN Goto("reformat") ELSE Return(mount_point)
    /\ UNCHANGED <<conf, node, run_vars, mount_point, mount_string, attempts>>
    /\ UNCHANGED swap_vars

\* Line 182: shellutil.run(mkfs_string) in the ladder.
format_retry ==
    /\ pc = "reformat"
    /\ run_dropped(mkfs_string(conf.fs, partition_of(device)))
    /\ Goto("final")
    /\ UNCHANGED <<conf, os_vars, run_vars, mount_point, mount_string, ret, attempts>>
    /\ UNCHANGED swap_vars

\* Lines 183-195: the final mount attempt.
mount_final ==
    /\ pc = "final"
    /\ \E r \in MountResults :
           /\ run_mount(r)
           /\ IF final_failed(r)
                THEN Raise(DataDiskError(mount_message(partition_of(device)), r))
                ELSE Return(mount_point)
    /\ UNCHANGED <<conf, node, run_vars, mount_point, mount_string, attempts>>
    /\ UNCHANGED swap_vars

\* ---------------------------------------------------------- specification
Step ==
    \/ start_activate_data_disk
    \/ activate_data_disk
    \/ run_end
    \/ end_activate
    \/ query_mounts
    \/ mkdir
    \/ parted_print
    \/ create_partition
    \/ format_partition
    \/ build_mount_string
    \/ wait_partition
    \/ check_partition
    \/ mount_first
    \/ reread_sfdisk
    \/ reread_blockdev
    \/ mount_retry
    \/ format_retry
    \/ mount_final
    \/ \E d \in Devices : external_mount(d)
    \/ \E d \in Devices : udev_add(d)

\* One start of the agent.
Next == Step

Spec == Init /\ [][Next]_vars

\* The agent started up to MaxRuns times.
NextRestart == Step \/ start_again

SpecRestart == Init /\ [][NextRestart]_vars

TypeOK ==
    /\ conf \in Confs
    /\ runs \in 0..MaxRuns
    /\ idx \in 1..(Len(devices) + 1)
    /\ attempts \in 0..Attempts
    /\ Len(activated) <= Len(devices)

\* ------------------------------------------------------------ observation
\* The commands of each kind, for every configuration and device.
ConfMountOptions == { c.mountoptions : c \in Confs }
MountCommands ==
    { get_mount_string(f, o, partition_of(d), mount_point_of(d)) :
        f \in FsTypes, o \in ConfMountOptions, d \in Devices }
MkfsCommands == { mkfs_string(f, partition_of(d)) : f \in FsTypes, d \in Devices }
MkpartCommands == { mkpart_string(device_path_of(d), f) : f \in FsTypes, d \in Devices }
PrintCommands == { print_string(device_path_of(d)) : d \in Devices }
SfdiskCommands == { sfdisk_string(device_path_of(d)) : d \in Devices }
BlockdevCommands == { blockdev_string(device_path_of(d)) : d \in Devices }
ExistsCalls == { exists_string(partition_of(d)) : d \in Devices }
MkdirCalls == { mkdir_string(mount_point_of(d)) : d \in Devices }

Positions(S) == { i \in DOMAIN issued : issued[i].cmd \in S }
Min(S) == CHOOSE x \in S : \A y \in S : x <= y
Max(S) == CHOOSE x \in S : \A y \in S : x >= y

Mounts == Positions(MountCommands)
CallEnded == pc \in {"returned", "raised"}

\* The probe entries that classify the device as empty / as GPT or Other.
ProbedEmpty ==
    { i \in Positions(PrintCommands) :
        issued[i].rc = 0 /\ "unrecognised" \in issued[i].out }
ProbedPartitioned ==
    { i \in Positions(PrintCommands) :
        issued[i].rc = 0 /\ "unrecognised" \notin issued[i].out }

\* The first mount attempt entered the retry ladder: it exited non-zero and
\* was not the tolerated exit 32 "is already mounted".
EnteredLadder ==
    /\ Mounts # {}
    /\ LET first == issued[Min(Mounts)]
       IN  /\ first.rc # 0
           /\ ~(first.rc = AlreadyMountedExit /\ "is already mounted" \in first.out)

\* The format commands issued after a mount attempt.
LadderFormats ==
    { k \in Positions(MkfsCommands) : \E m \in Mounts : m < k }

MountError ==
    /\ pc = "raised"
    /\ error.msg = mount_message(partition_of(device))

\* ----------------------------------------------------------------- claims

\* C1: data preservation.  In a call whose probe exited 0 with output that
\* does not contain "unrecognised" (GPT or Other), no partition-creation
\* command and no format command is ever issued.
C1_NoFormatOfPartitionedDevice ==
    ProbedPartitioned # {} =>
        Positions(MkpartCommands) \cup Positions(MkfsCommands) = {}

\* C2: for a probe that exits 0 with "unrecognised" in its output (with or
\* without "gpt"), exactly one partition-creation command (GPT label, one
\* primary partition 0%-100%) is issued right after the probe, then the
\* format command of partition 1 with the configured filesystem type, and
\* every mount command comes after both.
C2_EmptyDiskPartitionedAndFormattedOnce ==
    \A i \in ProbedEmpty :
        /\ pc = "classify" => Len(issued) = i
        /\ pc # "classify" =>
              /\ Len(issued) >= i + 1
              /\ issued[i + 1].cmd = mkpart_string(device_path_of(device), conf.fs)
              /\ Positions(MkpartCommands) = {i + 1}
        /\ pc \notin {"classify", "format"} =>
              /\ Len(issued) >= i + 2
              /\ issued[i + 2].cmd = mkfs_string(conf.fs, partition_of(device))
        /\ \A m \in Mounts : m > i + 2

C2_Witness ==
    /\ pc = "returned"
    /\ \E i \in ProbedEmpty : "gpt" \in issued[i].out
    /\ Mounts # {}

\* C3: the counts of the retry ladder.  When the first mount attempt fails
\* (non-zero exit that is not the tolerated exit 32 "is already mounted"):
\* exactly one sfdisk -R follows it, blockdev --rereadpt is issued exactly
\* when sfdisk -R exited non-zero, and the mount is retried once; a retry
\* that exits 0 leaves two mount attempts and no ladder format; a retry that
\* exits non-zero is followed by exactly one format and one final mount.
C3_RetryLadderCounts ==
    (CallEnded /\ EnteredLadder) =>
        LET m1 == Min(Mounts)
            s == m1 + 1
            b == IF issued[s].rc # 0 THEN 1 ELSE 0
            m2 == s + b + 1
        IN  /\ Len(issued) >= m2
            /\ Positions(SfdiskCommands) = {s}
            /\ Positions(BlockdevCommands) = (IF b = 1 THEN {s + 1} ELSE {})
            /\ m2 \in Mounts
            /\ issued[m2].cmd = issued[m1].cmd
            /\ issued[m2].rc = 0 =>
                  /\ Mounts = {m1, m2}
                  /\ LadderFormats = {}
            /\ issued[m2].rc # 0 =>
                  /\ LadderFormats = {m2 + 1}
                  /\ Mounts = {m1, m2, m2 + 2}
                  /\ Len(issued) = m2 + 2

C3_Witness ==
    /\ pc = "returned"
    /\ Cardinality(Mounts) = 3
    /\ Positions(BlockdevCommands) # {}

\* C4: the ladder is bounded and the format is the last resort.  At most
\* three mount commands per call; a format after a mount attempt comes only
\* after two failed mount attempts with a partition-table re-read between
\* them; a mount attempt that exits 0 is the last thing the call does; the
\* mount DataDiskError, carrying exit code and output, is raised exactly
\* when the third mount attempt exits non-zero.
C4_LadderBoundedFormatLast ==
    /\ Cardinality(Mounts) <= 3
    /\ \A k \in LadderFormats :
           \E a, b \in Mounts, s \in Positions(SfdiskCommands) :
               /\ a < s /\ s < b /\ b < k
               /\ issued[a].rc # 0 /\ issued[b].rc # 0
    /\ \A m \in Mounts :
           issued[m].rc = 0 => (Len(issued) = m /\ pc = "returned")
    /\ MountError <=> (Cardinality(Mounts) = 3 /\ issued[Max(Mounts)].rc # 0)
    /\ MountError =>
           /\ error.rc = issued[Max(Mounts)].rc
           /\ error.out = issued[Max(Mounts)].out

C4_Witness ==
    /\ MountError
    /\ error.rc = AlreadyMountedExit
    /\ "is already mounted" \in error.out

\* C5: the already-mounted short-circuit.  When the mount listing at the
\* start of the call shows the device mounted, the call returns that mount
\* point and does nothing else: the listing is the only entry of issued.
C5_AlreadyMountedShortCircuit ==
    (issued # <<>> /\ issued[1].cmd = list_string /\ issued[1].out # {}) =>
        /\ Len(issued) = 1
        /\ pc = "returned"
        /\ issued[1].out = {retval}

C5_Witness ==
    /\ pc = "returned"
    /\ issued[1].out = {OtherMountPoint}
    /\ retval = OtherMountPoint

\* C6: idempotence over two calls.  While a device has a call that returned
\* normally behind it and nobody else has changed the mount table since, the
\* next call for it issues no mount command, does not fail, and returns the
\* mount point the earlier call returned.
C6_SecondCallReturnsSameMountPoint ==
    (pc \notin {"idle", "loop"} /\ last_ret[device] # None) =>
        /\ Mounts = {}
        /\ pc # "raised"
        /\ pc = "returned" => retval = last_ret[device]

Sleeps == Positions({sleep_string})
Polls == Positions(ExistsCalls)

C8_AlreadyMountedTolerance ==
    Mounts # {} =>
        LET m1 == Min(Mounts)
            first == issued[m1]
        IN  /\ (first.rc = AlreadyMountedExit /\ "is already mounted" \in first.out) =>
                  /\ pc = "returned"
                  /\ retval = mount_point
                  /\ error = None
                  /\ Len(issued) = m1
            /\ (first.rc = AlreadyMountedExit /\ "is already mounted" \notin first.out) =>
                  IF Len(issued) = m1
                    THEN pc = "reread"
                    ELSE issued[m1 + 1].cmd = sfdisk_string(device_path_of(device))

C8_Witness ==
    /\ pc = "returned"
    /\ Mounts # {}
    /\ issued[Min(Mounts)].rc = AlreadyMountedExit
    /\ retval = mount_point

Mutating ==
    Positions(MkpartCommands \cup MkfsCommands \cup SfdiskCommands
                  \cup BlockdevCommands \cup MountCommands)

\* C9: nothing that changes the device before a successful probe.  Every
\* partition-creation, format, re-read and mount command has a probe that
\* exited 0 before it; when creating the mount directory fails or the probe
\* exits non-zero, the call raises DataDiskError and has issued none of them.
C9_ProbeBeforeMutation ==
    /\ \A j \in Mutating :
           \E i \in Positions(PrintCommands) : i < j /\ issued[i].rc = 0
    /\ ( \/ \E i \in Positions(MkdirCalls) : issued[i].rc # 0
         \/ \E i \in Positions(PrintCommands) : issued[i].rc # 0 ) =>
           /\ pc = "raised"
           /\ error.msg \in {mkdir_message(mount_point),
                             probe_message(device_path_of(device))}
           /\ Mutating = {}

C9_Witness ==
    /\ pc = "raised"
    /\ \E i \in Positions(PrintCommands) :
           issued[i].rc # 0 /\ "unrecognised" \in issued[i].out

\* The messages a DataDiskError of a call for d can carry.
MessagesOf(d) ==
    { mkdir_message(mount_point_of(d)), probe_message(device_path_of(d)),
      partition_message(partition_of(d)), mount_message(partition_of(d)) }

\* C10: the per-device error boundary.  The devices are activated in
\* enumeration order, each once and one after another; when run ends every
\* enumerated device has been activated; a call that raised DataDiskError
\* has exactly one event (operation ActivateDataDisk, is_success false), a
\* call that returned has none, and there are no other events.
C10_PerDeviceErrorBoundary ==
    /\ Len(activated) <= Len(devices)
    /\ activated = SubSeq(devices, 1, Len(activated))
    /\ pc = "loop" => (Len(activated) = idx - 1 /\ Len(outcomes) = idx - 1)
    /\ pc \notin {"idle", "loop"} => (Len(activated) = idx /\ Len(outcomes) = idx - 1)
    /\ pc = "idle" => (activated = devices /\ Len(outcomes) = Len(devices))
    /\ \A k \in DOMAIN events :
           events[k].op = "ActivateDataDisk" /\ events[k].is_success = FALSE
    /\ \A i \in DOMAIN outcomes :
           Cardinality({ k \in DOMAIN events :
                             events[k].message \in MessagesOf(activated[i]) })
               = (IF outcomes[i] = "error" THEN 1 ELSE 0)
    /\ Len(events) = Cardinality({ i \in DOMAIN outcomes : outcomes[i] = "error" })

C10_Witness ==
    /\ pc = "idle"
    /\ runs > 0
    /\ outcomes = <<"error", "ok">>
    /\ Len(events) = 1

\* ================================================================ swap file
\* create_swap_space and mkfile.  They are entry points of their own (the
\* caller passes an already mounted directory), so they have their own
\* specification, SpecSwap: one call of create_swap_space or of mkfile, for
\* every request, file at the path and configured filesystem.  issued is the
\* record of what the call has done, as in mount_data_disk; ret holds
\* mkfile's ret as <<ret, {}>>.

\* ---------------------------------------------------------------- bounds
MaxBlocks == 2      \* full 64 MiB blocks in a request

MiB == 1024 * 1024
dd_maxbs == 64 * 1024 * 1024                \* dd_maxbs = 64 * 1024 ** 2

\* conf.get_datadisk_filesystem(): the two types mkfile names and another.
SwapFsTypes == FsTypes \cup {"btrfs"}
SwapConfs == { [fs |-> f, mountoptions |-> None] : f \in SwapFsTypes }

\* The requests: size_mb of create_swap_space and nbytes of mkfile.
SizesMb == { b * 64 + r : b \in 0..MaxBlocks, r \in {0, 36} }
NBytes == {0 - 1} \cup { b * dd_maxbs + r : b \in 0..MaxBlocks, r \in {0, 1, 36 * MiB} }

\* st_mode, as the classes whose permission bits are set; S_IRWXG | S_IRWXO.
GroupOther == {"S_IRWXG", "S_IRWXO"}
Modes == { {"S_IRWXU"}, {"S_IRWXU", "S_IRWXG", "S_IRWXO"} }
OwnerOnly == {"S_IRWXU"}                    \* S_IRUSR | S_IWUSR, umask 0077

\* os.path.isfile and os.path.getsize
isfile(f) == f.exists
getsize(f) == f.size

swapfile_of(mp) == mp \o "/swapfile"        \* os.path.join(mount_point, 'swapfile')
quote(f) == "'" \o f \o "'"                 \* shellutil.quote((filename,))

\* ------------------------------------------------------- command strings
swaplist_string == "swapon -s"
swapoff_string(f) == "swapoff " \o f
mkswap_string(f) == "mkswap " \o f
swapon_string(f) == "swapon " \o f
fallocate_string(n, fn_sh) ==
    "umask 0077 && fallocate -l " \o ToString(n) \o " " \o fn_sh
dd_cmd(bs, count, fn_sh) ==
    "umask 0077 && dd if=/dev/zero bs=" \o ToString(bs) \o " count=" \o ToString(count)
        \o " conv=notrunc of=" \o fn_sh

\* What is not a shell command but is recorded in issued all the same.
chmod_string(f) == "chmod " \o f
remove_string(f) == "remove " \o f
open_string(f) == "open " \o f
posix_fallocate_string == "posix_fallocate"
close_string == "close"

invalid_size_message(n) == "Invalid swap size [" \o ToString(n) \o "]"

\* The file after a command has written n bytes from offset 0 without
\* truncating (dd conv=notrunc, fallocate -l): created with the umask's mode
\* when absent, never shortened.
written(f, n) ==
    IF ~isfile(f) THEN File(n, OwnerOnly)
    ELSE [f EXCEPT !.size = IF f.size > n THEN f.size ELSE n]

\* What a command that was to write n bytes leaves: all of them when it
\* exits 0; when it fails, nothing, an empty file, or part of them.
outcome_files(f, n, rc) ==
    IF rc = 0 THEN {written(f, n)}
    ELSE {f, written(f, 0), written(f, n \div 2)}

\* ----------------------------------------------------------------- mkfile
\* What the swap-file code leaves alone.
mount_vars == <<conf, mount_table, node, runs, devices, idx, mount_point, mount_string,
                attempts, activated, outcomes, events, last_ret>>

\* mkfile is called on its own.
start_mkfile ==
    /\ pc = "idle"
    /\ \E d \in Devices, n \in NBytes :
           /\ filename' = swapfile_of(mount_point_of(d))
           /\ nbytes' = n
    /\ caller' = "outside"
    /\ pc' = "mkfile"
    /\ UNCHANGED <<mount_vars, file, swaplist, size, fd, ret, issued, retval, error>>

\* return from mkfile: to create_swap_space, which drops the value, or to
\* the caller outside.
mkfile_return(v) ==
    /\ retval' = v
    /\ error' = None
    /\ pc' = IF caller = "create_swap_space" THEN "mkswap" ELSE "returned"

\* A variant without the size validation.
invalid_size_never(n) == FALSE

\* if nbytes <= 0: raise DataDiskError
invalid_size(n) == n <= 0

\* Lines 300-312: the size validation, the removal of an existing file, ret = 0.
mkfile ==
    /\ pc = "mkfile"
    /\ IF invalid_size(nbytes)
         THEN /\ Raise(DataDiskError(invalid_size_message(nbytes), NoRet))
              /\ UNCHANGED <<file, issued, ret>>
         ELSE /\ IF isfile(file)
                   THEN file' = NoFile /\ Issue(remove_string(filename), 0, {})
                   ELSE UNCHANGED <<file, issued>>
              /\ ret' = <<0, {}>>
              /\ Goto("open")
    /\ UNCHANGED <<mount_vars, filename, swaplist, size, nbytes, fd, caller>>

\* A variant that takes only xfs for unsafe.
unsafe_fs_xfs_only(f) == f = "xfs"

\* if self.fs not in ['xfs', 'ext4']
unsafe_fs(f) == f \in {"xfs", "ext4"}

\* Lines 314-326: the choice of the strategy and os.open(O_CREAT | O_WRONLY |
\* O_EXCL, S_IRUSR | S_IWUSR); the Python that runs the agent is 3.3 or
\* later, or older.
os_open ==
    /\ pc = "open"
    /\ IF unsafe_fs(conf.fs)
         THEN /\ Goto("dd")
              /\ UNCHANGED <<file, fd, issued>>
         ELSE \E py33 \in BOOLEAN, opened \in BOOLEAN :
                  IF ~py33
                    THEN /\ Goto("fallocate")
                         /\ UNCHANGED <<file, fd, issued>>
                    ELSE IF opened
                      THEN /\ file' = File(0, OwnerOnly)
                           /\ fd' = "open"
                           /\ Issue(open_string(filename), 0, {})
                           /\ Goto("posix_fallocate")
                      ELSE /\ UNCHANGED <<file, fd>>
                           /\ Issue(open_string(filename), 1, {})
                           /\ Goto("fallocate")
    /\ UNCHANGED <<mount_vars, filename, swaplist, size, nbytes, caller, ret>>

\* Lines 327-334: os.posix_fallocate(fd, 0, nbytes), return 0 or the except
\* clause, and os.close(fd) in the finally clause.
posix_fallocate ==
    /\ pc = "posix_fallocate"
    /\ \E rc \in ExitCodes :
           /\ \E f \in outcome_files(file, nbytes, rc) : file' = f
           /\ issued' = issued \o << Entry(posix_fallocate_string, rc, {}),
                                     Entry(close_string, 0, {}) >>
           /\ IF rc = 0 THEN mkfile_return(0) ELSE Goto("fallocate")
    /\ fd' = "closed"
    /\ UNCHANGED <<mount_vars, filename, swaplist, size, nbytes, caller, ret>>

\* A variant that goes on to dd whatever fallocate exited with.
fallocate_succeeded_never(r) == FALSE

\* if ret == 0: return ret
fallocate_succeeded(r) == r = 0

\* Lines 336-342: the fallocate command.
fallocate ==
    /\ pc = "fallocate"
    /\ \E rc \in ExitCodes :
           /\ ret' = <<rc, {}>>
           /\ Issue(fallocate_string(nbytes, quote(filename)), rc, {})
           /\ \E f \in outcome_files(file, nbytes, rc) : file' = f
           /\ IF fallocate_succeeded(rc) THEN mkfile_return(rc) ELSE Goto("dd")
    /\ UNCHANGED <<mount_vars, filename, swaplist, size, nbytes, fd, caller>>

blocks_of(n) == n \div dd_maxbs             \* int(nbytes / dd_maxbs)
remains_of(n) == n % dd_maxbs               \* int(nbytes % dd_maxbs)

\* Lines 344-351: dd of the full blocks, ret = run(...) << 8.
dd_blocks ==
    /\ pc = "dd"
    /\ LET blocks == blocks_of(nbytes)
       IN  IF blocks > 0
             THEN \E rc \in ExitCodes :
                      /\ ret' = <<rc * 256, {}>>
                      /\ Issue(dd_cmd(dd_maxbs, blocks, quote(filename)), rc, {})
                      /\ \E f \in outcome_files(file, dd_maxbs * blocks, rc) : file' = f
             ELSE UNCHANGED <<ret, issued, file>>
    /\ Goto("dd_remains")
    /\ UNCHANGED <<mount_vars, filename, swaplist, size, nbytes, fd, caller>>

\* Lines 353-362: dd of the remainder, ret += run(...), return ret.
dd_remains ==
    /\ pc = "dd_remains"
    /\ LET remains == remains_of(nbytes)
       IN  IF remains > 0
             THEN \E rc \in ExitCodes :
                      /\ ret' = <<ret[1] + rc, {}>>
                      /\ Issue(dd_cmd(remains, 1, quote(filename)), rc, {})
                      /\ \E f \in outcome_files(file, remains, rc) : file' = f
             ELSE UNCHANGED <<ret, issued, file>>
    /\ mkfile_return(ret'[1])
    /\ UNCHANGED <<mount_vars, filename, swaplist, size, nbytes, fd, caller>>

\* ------------------------------------------------------ create_swap_space
\* Lines 262-266: size, swapfile and the `swapon -s` listing, which names
\* the swap file or does not.
create_swap_space ==
    /\ pc = "idle"
    /\ \E d \in Devices, size_mb \in SizesMb, listed \in BOOLEAN :
           LET size_kb == size_mb * 1024
               swapfile == swapfile_of(mount_point_of(d))
               out == IF listed THEN {swapfile} ELSE {}
           IN  /\ size' = size_kb * 1024
               /\ filename' = swapfile
               /\ swaplist' = out
               /\ Issue(swaplist_string, 0, out)
    /\ pc' = "check_existing_swap_file"
    /\ UNCHANGED <<mount_vars, file, nbytes, fd, caller, ret, retval, error>>

\* A variant that does not compare the size.
swap_enabled_any_size(swapfile, list, f, sz) == swapfile \in list /\ isfile(f)

\* swapfile in swaplist and os.path.isfile(swapfile) and
\* os.path.getsize(swapfile) == size
swap_enabled(swapfile, list, f, sz) ==
    swapfile \in list /\ isfile(f) /\ getsize(f) = sz

\* Lines 245-260 and 268-269: check_existing_swap_file and the early return.
check_existing_swap_file ==
    /\ pc = "check_existing_swap_file"
    /\ IF swap_enabled(filename, swaplist, file, size)
         THEN /\ IF file.mode \cap GroupOther # {}
                   THEN /\ file' = [file EXCEPT !.mode = file.mode \ GroupOther]
                        /\ Issue(chmod_string(filename), 0, {})
                   ELSE UNCHANGED <<file, issued>>
              /\ Return(None)
         ELSE /\ UNCHANGED <<file, issued>>
              /\ Goto("swapoff")
    /\ UNCHANGED <<mount_vars, filename, swaplist, size, nbytes, fd, caller, ret>>

\* if os.path.isfile(swapfile) and os.path.getsize(swapfile) != size
size_mismatch(f, sz) == isfile(f) /\ getsize(f) # sz

\* Lines 271-273: swapoff of the old file, its exit code dropped.
swapoff ==
    /\ pc = "swapoff"
    /\ IF size_mismatch(file, size)
         THEN /\ run_dropped(swapoff_string(filename))
              /\ Goto("remove")
         ELSE /\ UNCHANGED issued
              /\ Goto("create")
    /\ UNCHANGED <<mount_vars, file, filename, swaplist, size, nbytes, fd, caller, ret>>

\* Line 274: os.remove(swapfile).
remove ==
    /\ pc = "remove"
    /\ file' = NoFile
    /\ Issue(remove_string(filename), 0, {})
    /\ Goto("create")
    /\ UNCHANGED <<mount_vars, filename, swaplist, size, nbytes, fd, caller, ret>>

\* Lines 276-278: if not os.path.isfile(swapfile): self.mkfile(swapfile, size_kb * 1024)
create_swap_file ==
    /\ pc = "create"
    /\ IF ~isfile(file)
         THEN /\ nbytes' = size
              /\ caller' = "create_swap_space"
              /\ Goto("mkfile")
         ELSE /\ UNCHANGED <<nbytes, caller>>
              /\ Goto("swapon")
    /\ UNCHANGED <<mount_vars, file, filename, swaplist, size, fd, ret, issued>>

\* Line 279: mkswap, its exit code dropped.
mkswap ==
    /\ pc = "mkswap"
    /\ run_dropped(mkswap_string(filename))
    /\ Goto("swapon")
    /\ UNCHANGED <<mount_vars, file, filename, swaplist, size, nbytes, fd, caller, ret>>

\* A variant that does not look at the exit code of swapon.
swapon_failed_never(rc) == FALSE

\* if shellutil.run("swapon ..."): raise DataDiskError
swapon_failed(rc) == rc # 0

\* Lines 280-282: swapon and the end of create_swap_space.
swapon ==
    /\ pc = "swapon"
    /\ \E rc \in ExitCodes :
           /\ Issue(swapon_string(filename), rc, {})
           /\ IF swapon_failed(rc)
                THEN Raise(DataDiskError(filename, NoRet))
                ELSE Return(None)
    /\ UNCHANGED <<mount_vars, file, filename, swaplist, size, nbytes, fd, caller, ret>>

\* ---------------------------------------------------------- specification
\* Before the call: any configured filesystem, and at the swap file's path
\* no file or a file of some size and mode.
FileSizes == { mb * MiB : mb \in SizesMb } \cup {1}

InitSwap ==
    /\ conf \in SwapConfs
    /\ mount_table = [d \in Devices |-> None]
    /\ node = [d \in Devices |-> FALSE]
    /\ runs = 0
    /\ devices = <<>>
    /\ idx = 1
    /\ pc = "idle"
    /\ mount_point = None
    /\ mount_string = None
    /\ ret = NoRet
    /\ attempts = 0
    /\ issued = <<>>
    /\ retval = None
    /\ error = None
    /\ activated = <<>>
    /\ outcomes = <<>>
    /\ events = <<>>
    /\ last_ret = [d \in Devices |-> None]
    /\ file \in {NoFile} \cup { File(s, m) : s \in FileSizes, m \in Modes }
    /\ filename = None
    /\ swaplist = {}
    /\ size = 0
    /\ nbytes = 0
    /\ fd = None
    /\ caller = None

NextSwap ==
    \/ create_swap_space
    \/ check_existing_swap_file
    \/ swapoff
    \/ remove
    \/ create_swap_file
    \/ mkswap
    \/ swapon
    \/ start_mkfile
    \/ mkfile
    \/ os_open
    \/ posix_fallocate
    \/ fallocate
    \/ dd_blocks
    \/ dd_remains

SpecSwap == InitSwap /\ [][NextSwap]_vars

\* ------------------------------------------------------------ observation
DdCommands ==
    { dd_cmd(dd_maxbs, blocks_of(nbytes), quote(filename)),
      dd_cmd(remains_of(nbytes), 1, quote(filename)) }
FallocateCommands == { fallocate_string(nbytes, quote(filename)) }

\* mkfile has returned: to create_swap_space, or to the caller outside.
MkfileReturned ==
    \/ pc = "mkswap"
    \/ pc = "returned" /\ caller = "outside"

\* mkfile has raised (create_swap_space lets the error through).
MkfileRaised ==
    /\ pc = "raised"
    /\ caller # None
    /\ error.msg = invalid_size_message(nbytes)

\* ----------------------------------------------------------------- claims

\* C11: exact allocation size.  When mkfile returns 0, the file at the
\* target path exists and has exactly nbytes bytes.
C11_ExactAllocationSize ==
    (MkfileReturned /\ retval = 0) =>
        (isfile(file) /\ getsize(file) = nbytes)

\* C12: fallback status.  When mkfile has issued dd commands, it returns 0
\* exactly when every one of them exited 0.
C12_FallbackStatus ==
    (MkfileReturned /\ Positions(DdCommands) # {}) =>
        (retval = 0 <=> \A i \in Positions(DdCommands) : issued[i].rc = 0)

\* C13: the size validation leaves the state unchanged.  The first step of
\* mkfile with nbytes <= 0 raises the "Invalid swap size" DataDiskError and
\* changes neither the file at the path nor issued (nothing removed, nothing
\* created, no command); with nbytes > 0 it removes a file that is there, so
\* that no file is at the path when a strategy starts, and does nothing else.
C13_SizeValidationLeavesStateUnchanged ==
    [][ pc = "mkfile" =>
          IF nbytes <= 0
            THEN /\ pc' = "raised"
                 /\ error'.msg = invalid_size_message(nbytes)
                 /\ file' = file
                 /\ issued' = issued
            ELSE /\ pc' = "open"
                 /\ ~isfile(file')
                 /\ issued' = IF isfile(file)
                                THEN Append(issued, Entry(remove_string(filename), 0, {}))
                                ELSE issued ]_vars

C13_Witness ==
    /\ MkfileRaised
    /\ nbytes = 0
    /\ isfile(file)
    /\ issued = <<>>

FastCalls == Positions({open_string(filename), posix_fallocate_string, close_string})
Fallocates == Positions(FallocateCommands)
Dds == Positions(DdCommands)

\* C14: the strategies in order, the first success wins.  A posix_fallocate
\* that succeeded leaves no fallocate command and no dd command in the call,
\* and mkfile returns 0; a fallocate command that exited 0 leaves no dd
\* command, and mkfile returns 0; every dd command comes after a fallocate
\* command that exited non-zero and after no posix_fallocate that succeeded,
\* or the filesystem type skips both.
C14_StrategiesInOrderFirstSuccessWins ==
    /\ \A i \in Positions({posix_fallocate_string}) :
           issued[i].rc = 0 =>
               /\ Fallocates = {} /\ Dds = {}
               /\ MkfileReturned => retval = 0
    /\ \A i \in Fallocates :
           issued[i].rc = 0 =>
               /\ Dds = {}
               /\ MkfileReturned => retval = 0
    /\ \A k \in Dds :
           \/ conf.fs \in FsTypes /\ FastCalls = {} /\ Fallocates = {}
           \/ /\ \E j \in Fallocates : j < k /\ issued[j].rc # 0
              /\ \A i \in Positions({posix_fallocate_string}) : issued[i].rc # 0

C14_Witness ==
    /\ pc = "mkswap"
    /\ retval = 0
    /\ \E i \in Positions({posix_fallocate_string}) : issued[i].rc # 0
    /\ \E j \in Fallocates : issued[j].rc = 0

\* C15: swap reuse.  When check_existing_swap_file runs, `swapon -s` is the
\* only thing the call has done.  If the file exists, has exactly the
\* requested size and is named in the listing, the call returns normally
\* there and then, and the only change is the removal of the group/other
\* permission bits (one chmod); otherwise it does not return there and
\* changes nothing.  Nothing happens after the return.
C15_SwapReuse ==
    [][ /\ pc = "check_existing_swap_file" =>
              /\ issued = <<Entry(swaplist_string, 0, swaplist)>>
              /\ IF isfile(file) /\ getsize(file) = size /\ filename \in swaplist
                   THEN /\ pc' = "returned"
                        /\ error' = None
                        /\ file' = [file EXCEPT !.mode = file.mode \ GroupOther]
                        /\ issued' = IF file' = file
                                       THEN issued
                                       ELSE Append(issued, Entry(chmod_string(filename), 0, {}))
                   ELSE /\ pc' # "returned"
                        /\ file' = file
                        /\ issued' = issued
        /\ pc = "returned" => FALSE ]_vars

C15_Witness ==
    /\ pc = "returned"
    /\ issued = <<Entry(swaplist_string, 0, {filename}), Entry(chmod_string(filename), 0, {})>>
    /\ getsize(file) = size
    /\ file.mode = OwnerOnly

\* C16: swap size mismatch.  When the call has removed the old file and is
\* about to issue swapon, every command so far having exited 0: swapoff and
\* the removal were the first things after the listing, in this order,
\* mkswap was the last, swapon has not been issued before, and the file at
\* the path is a new one of exactly the requested size.
C16_SizeMismatchRecreates ==
    ( /\ pc = "swapon"
      /\ Positions({remove_string(filename)}) # {}
      /\ \A i \in DOMAIN issued : issued[i].rc = 0 ) =>
        /\ Len(issued) >= 4
        /\ issued[2].cmd = swapoff_string(filename)
        /\ issued[3].cmd = remove_string(filename)
        /\ Positions({remove_string(filename)}) = {3}
        /\ issued[Len(issued)].cmd = mkswap_string(filename)
        /\ Positions({swapon_string(filename)}) = {}
        /\ isfile(file)
        /\ getsize(file) = size

\* C17: a failed fast allocation is absorbed cleanly.  When the fallocate
\* command is about to start after os.open was attempted, the descriptor is
\* not open and no file the failed step created is at the target path.
C17_FastAllocationFailureAbsorbed ==
    (pc = "fallocate" /\ Positions({open_string(filename)}) # {}) =>
        /\ fd # "open"
        /\ ~isfile(file)

\* C18: no fast allocation on xfs and ext4.  With one of these types mkfile
\* issues no os.open, posix_fallocate or fallocate command, and what it does
\* after the removal of an old file is dd only; with another type every dd
\* command has the fallocate command before it, the posix_fallocate step
\* comes before the fallocate command, and a call that returned has attempted
\* a fast strategy.
C18_NoFastAllocationOnUnsafeFs ==
    /\ conf.fs \in FsTypes =>
           /\ FastCalls = {} /\ Fallocates = {}
           /\ MkfileReturned =>
                  /\ Dds # {}
                  /\ \A i \in DOMAIN issued : i >= Min(Dds) => i \in Dds
    /\ conf.fs \notin FsTypes =>
           /\ \A k \in Dds : \E j \in Fallocates : j < k
           /\ \A i \in FastCalls : \A j \in Fallocates : i < j
           /\ MkfileReturned => (FastCalls # {} \/ Fallocates # {})

C18_Witness ==
    /\ conf.fs = "ext4"
    /\ pc = "mkswap"
    /\ Cardinality(Dds) = 2

\* C19: no format after an "already mounted" refusal.  No format command is
\* issued after a mount attempt that exited 32 with "is already mounted" in
\* its output, whichever attempt it was.
C19_NoFormatAfterAlreadyMounted ==
    \A m \in Mounts :
        (issued[m].rc = AlreadyMountedExit /\ "is already mounted" \in issued[m].out) =>
            \A k \in Positions(MkfsCommands) : k < m

\* A call of create_swap_space has ended.
SwapCallEnded ==
    /\ pc \in {"returned", "raised"}
    /\ issued # <<>>
    /\ issued[1].cmd = swaplist_string

Swapons == Positions({swapon_string(filename)})
Mkswaps == Positions({mkswap_string(filename)})

\* The call returned normally: at the reuse check, or after a swapon that
\* exited 0.
ReturnedEnabled ==
    \/ /\ Swapons = {}
       /\ filename \in swaplist /\ isfile(file) /\ getsize(file) = size
    \/ /\ Swapons = {Len(issued)}
       /\ issued[Len(issued)].rc = 0

\* The call raised because swapon exited non-zero.
RaisedBySwapon ==
    /\ Swapons = {Len(issued)}
    /\ issued[Len(issued)].rc # 0
    /\ error.msg = filename

\* What C20 says in particular: a call in which mkfile returned, with
\* whatever status, has issued mkswap and then swapon; a call that never
\* called mkfile has issued swapon alone, on the file that was there, of the
\* requested size; and a file of the requested size that failed the reuse
\* check goes to swapon with no other step.
SwapParticulars ==
    /\ []( SwapCallEnded =>
             /\ (caller = "create_swap_space" /\ ~MkfileRaised) =>
                    /\ Mkswaps = {Len(issued) - 1}
                    /\ Swapons = {Len(issued)}
             /\ (caller = None /\ Swapons # {}) =>
                    /\ Len(issued) = 2
                    /\ isfile(file) /\ getsize(file) = size )
    /\ [][ /\ (pc = "swapoff" /\ isfile(file) /\ getsize(file) = size) =>
                  (pc' = "create" /\ file' = file /\ issued' = issued)
           /\ (pc = "create" /\ isfile(file)) =>
                  (pc' = "swapon" /\ file' = file /\ issued' = issued) ]_vars

====
